---- MODULE Spec2Model ----
(***************************************************************************)
(* A model of the knowledge-base search engine: the character chunker,     *)
(* the deterministic ids, the embed/upsert ingestion, concurrent           *)
(* re-ingestion against the MongoDB collection, and the query path.        *)
(*                                                                         *)
(* Strings are sequences of one-character strings.                         *)
(***************************************************************************)
EXTENDS Integers, Sequences, FiniteSets, Bags, TLC

\* ------------------------------------------------------------------ bounds

\* Longest text handed to chunk_text in SpecChunk.
MaxLen == 4
\* Largest chunk_size and overlap handed to chunk_text in SpecChunk.
MaxChunkSize == 3
MaxOverlap == 3
\* Most pages of an ingested PDF.
MaxPages == 2
\* Largest chunk-size and overlap slider positions of an ingestion session.
MaxSliderSize == 2
MaxSliderOverlap == 1
\* text[:64], the chunk-text prefix that enters the chunk id, scaled to the
\* model's page texts.
IdPrefixLen == 1
\* Largest k of a query, and most hits handed to synthesize_answer.
MaxK == 2

\* ------------------------------------------------------------ text helpers

Min(a, b) == IF a < b THEN a ELSE b
Max(a, b) == IF a > b THEN a ELSE b

\* The characters of the model's texts; WHITESPACE are those matched by \s.
WHITESPACE == {" ", "\n"}
Alphabet == {"a", "b", " "}

\* Every text over Alphabet of length at most n.
TextsUpTo(n) == UNION {[1..k -> Alphabet] : k \in 0..n}

\* Python's s[a:b] for 0 <= a, 0 <= b (offsets are 0-based, b exclusive).
Slice(s, a, b) ==
    IF Min(b, Len(s)) <= a THEN <<>> ELSE SubSeq(s, a + 1, Min(b, Len(s)))

RECURSIVE lstrip(_)
lstrip(s) ==
    IF s # <<>> /\ Head(s) \in WHITESPACE THEN lstrip(Tail(s)) ELSE s

RECURSIVE rstrip(_)
rstrip(s) ==
    IF s # <<>> /\ s[Len(s)] \in WHITESPACE
    THEN rstrip(SubSeq(s, 1, Len(s) - 1))
    ELSE s

\* str.strip()
strip(s) == rstrip(lstrip(s))

\* WHITESPACE_RE.sub(" ", txt): every run of whitespace becomes one space.
RECURSIVE whitespace_sub(_)
whitespace_sub(s) ==
    IF s = <<>> THEN <<>>
    ELSE IF Head(s) \in WHITESPACE THEN <<" ">> \o whitespace_sub(lstrip(s))
    ELSE <<Head(s)>> \o whitespace_sub(Tail(s))

clean_text(txt) == strip(whitespace_sub(txt))

\* ---------------------------------------------------------------- chunker

\* end = min(start + chunk_size, n)
chunk_end(start_, chunk_size_, n) == Min(start_ + chunk_size_, n)

\* A slip that advances one character too far.
chunk_next_start_skips(end, overlap_) == Max(0, end - overlap_ + 1)

\* start = max(0, end - overlap)
chunk_next_start(end, overlap_) == Max(0, end - overlap_)

\* chunk_text's loop as a function: the chunks, or hangs = TRUE when the loop
\* comes back to a start offset it has been at (it then never ends).
RECURSIVE chunk_loop(_, _, _, _, _, _)
chunk_loop(t, cs, ov, st, acc, seen) ==
    IF ~(st < Len(t)) THEN [hangs |-> FALSE, chunks |-> acc]
    ELSE IF st \in seen THEN [hangs |-> TRUE, chunks |-> acc]
    ELSE LET end == chunk_end(st, cs, Len(t))
             acc2 == Append(acc, Slice(t, st, end))
         IN IF end = Len(t) THEN [hangs |-> FALSE, chunks |-> acc2]
            ELSE chunk_loop(t, cs, ov, chunk_next_start(end, ov), acc2,
                            seen \cup {st})

chunk_text(t, cs, ov) ==
    IF strip(t) = <<>> THEN [hangs |-> FALSE, chunks |-> <<>>]
    ELSE chunk_loop(strip(t), cs, ov, 0, <<>>, {})

\* --------------------------------------------------------------- identity

Digit(d) ==
    CASE d = 0 -> "0" [] d = 1 -> "1" [] d = 2 -> "2" [] d = 3 -> "3"
      [] d = 4 -> "4" [] d = 5 -> "5" [] d = 6 -> "6" [] d = 7 -> "7"
      [] d = 8 -> "8" [] d = 9 -> "9"

\* str(n) for an integer n >= 0.
RECURSIVE str(_)
str(n) == IF n < 10 THEN <<Digit(n)>> ELSE str(n \div 10) \o <<Digit(n % 10)>>

\* The bytes m.update() has been fed: the parts one after the other, with
\* nothing between them.
RECURSIVE updated(_)
updated(parts) ==
    IF parts = <<>> THEN <<>> ELSE Head(parts) \o updated(Tail(parts))

\* hexdigest()[:16] of SHA-256, taken to be collision-free: a digest stands
\* for exactly the bytes hashed.
hexdigest16(bytes) == bytes

deterministic_id(parts) == hexdigest16(updated(parts))

\* --------------------------------------------------------------- extraction

\* A PDF is the sequence of what page.extract_text() yields per page.
extract_pdf_text(pdf) ==
    [i \in 1..Len(pdf) |-> [page |-> i, text |-> clean_text(pdf[i])]]

\* ------------------------------------------------------------- embeddings

\* genai.embed_content(...)["embedding"]: the embedding model's vector for t.
embed_content(t) == [vector_of |-> t]

\* embed_texts: raises with no request made when the key is missing, and at
\* request fail_at when that request fails (fail_at = 0: none fails).
embed_texts(texts, key, fail_at) ==
    IF key = <<>> THEN [raised |-> TRUE, requests |-> 0, vecs |-> <<>>]
    ELSE IF fail_at \in 1..Len(texts)
    THEN [raised |-> TRUE, requests |-> fail_at, vecs |-> <<>>]
    ELSE [raised |-> FALSE, requests |-> Len(texts),
          vecs |-> [i \in 1..Len(texts) |-> embed_content(texts[i])]]

\* -------------------------------------------------------------- the store

\* The collection is a bag of documents {doc_id, chunk_id, text, embedding,
\* metadata}; db.py creates no index on it.
Matching(col, filt) ==
    {d \in BagToSet(col) :
        d.doc_id = filt.doc_id /\ d.chunk_id = filt.chunk_id}

\* {"$set": fields} applied to document d.
apply_set(d, fields) ==
    [f \in DOMAIN d \cup DOMAIN fields |->
        IF f \in DOMAIN fields THEN fields[f] ELSE d[f]]

\* A slip: the write inserts without looking for a match.
update_one_inserts(col, op, hit) == col (+) SetToBag({op.set})

\* UpdateOne(filt, update, upsert=True) given what its match phase found:
\* hit is a matching document, or <<>> when none matched.
update_one(col, op, hit) ==
    IF hit = <<>> THEN col (+) SetToBag({op.set})
    ELSE IF BagIn(hit, col)
    THEN (col (-) SetToBag({hit})) (+) SetToBag({apply_set(hit, op.set)})
    ELSE col

\* What a match phase can find for filt in col.
Hits(col, filt) ==
    IF Matching(col, filt) = {} THEN {<<>>} ELSE Matching(col, filt)

Filters(ops) == {ops[i].filt : i \in DOMAIN ops}

\* The orders of an unordered bulk write, told apart by what they leave: for
\* each filter, which of the ops on it is executed last.
RECURSIVE LastWritersOn(_, _)
LastWritersOn(ops, filters) ==
    IF filters = {} THEN {[f \in {} |-> 0]}
    ELSE LET f == CHOOSE x \in filters : TRUE IN
         {(f :> i) @@ w : i \in {j \in DOMAIN ops : ops[j].filt = f},
                          w \in LastWritersOn(ops, filters \ {f})}

LastWriters(ops) == LastWritersOn(ops, Filters(ops))

\* An execution order of the ops in which op w[f] is the last one on filter f.
ExecutionOrder(ops, w) ==
    LET last == {w[f] : f \in Filters(ops)}
        idx == [i \in 1..Len(ops) |-> i]
    IN SelectSeq(idx, LAMBDA i : i \notin last)
       \o SelectSeq(idx, LAMBDA i : i \in last)

RECURSIVE bulk_write_in(_, _, _)
bulk_write_in(col, ops, order) ==
    IF order = <<>> THEN col
    ELSE LET op == ops[Head(order)]
             hit == CHOOSE h \in Hits(col, op.filt) : TRUE
         IN bulk_write_in(update_one(col, op, hit), ops, Tail(order))

\* One client's col.bulk_write(ops, ordered=False) with no other writer: the
\* ops applied one after the other in an order the server picks.
bulk_write(col, ops, w) == bulk_write_in(col, ops, ExecutionOrder(ops, w))

\* --------------------------------------------------------------- ingestion

\* A slip: the chunk text does not enter the id.
chunk_id_without_text(doc_id, page, t) ==
    deterministic_id(<<doc_id, str(page)>>)

\* chunk_id = deterministic_id(doc_id, str(page), text[:64])
chunk_id_of(doc_id, page, t) ==
    deterministic_id(<<doc_id, str(page), Slice(t, 0, IdPrefixLen)>>)

update_op(doc_id, doc_name, page, t, emb) ==
    LET chunk_id == chunk_id_of(doc_id, page, t) IN
    [filt |-> [doc_id |-> doc_id, chunk_id |-> chunk_id],
     set |-> [doc_id |-> doc_id, chunk_id |-> chunk_id, text |-> t,
              embedding |-> emb,
              metadata |-> [doc_name |-> doc_name, page |-> page]]]

\* A slip: each chunk gets the vector of the chunk after it.
build_ops_shifted(doc_id, doc_name, chunks_, vecs) ==
    [i \in 1..Len(chunks_) |->
        update_op(doc_id, doc_name, chunks_[i][1], chunks_[i][2],
                  vecs[IF i < Len(vecs) THEN i + 1 ELSE 1])]

\* The ops list of upsert_chunks: zip(chunks, vecs).
build_ops(doc_id, doc_name, chunks_, vecs) ==
    [i \in 1..Min(Len(chunks_), Len(vecs)) |->
        update_op(doc_id, doc_name, chunks_[i][1], chunks_[i][2], vecs[i])]

\* A slip: each chunk is written as soon as it is embedded.
upsert_chunks_writes_early(col, doc_id, doc_name, chunks_, key, fail_at, w) ==
    LET texts == [i \in 1..Len(chunks_) |-> chunks_[i][2]]
        e == embed_texts(texts, key, fail_at)
        all == [i \in 1..Len(texts) |-> embed_content(texts[i])]
        done == IF e.raised
                THEN SubSeq(chunks_, 1, Max(e.requests - 1, 0))
                ELSE chunks_
        ops == build_ops(doc_id, doc_name, done, all)
    IN [col |-> IF ops = <<>> THEN col
                ELSE bulk_write(col, ops,
                                [f \in Filters(ops) |->
                                    CHOOSE i \in DOMAIN ops : ops[i].filt = f]),
        raised |-> e.raised, requests |-> e.requests,
        ops |-> ops, ret |-> IF e.raised THEN -1 ELSE Len(ops)]

\* upsert_chunks; ret = -1 stands for no return value (an exception).
upsert_chunks(col, doc_id, doc_name, chunks_, key, fail_at, w) ==
    IF chunks_ = <<>>
    THEN [col |-> col, raised |-> FALSE, requests |-> 0, ops |-> <<>>,
          ret |-> 0]
    ELSE LET texts == [i \in 1..Len(chunks_) |-> chunks_[i][2]]
             e == embed_texts(texts, key, fail_at)
             ops == build_ops(doc_id, doc_name, chunks_, e.vecs)
         IN IF e.raised
            THEN [col |-> col, raised |-> TRUE, requests |-> e.requests,
                  ops |-> <<>>, ret |-> -1]
            ELSE [col |-> IF ops # <<>> THEN bulk_write(col, ops, w) ELSE col,
                  raised |-> FALSE, requests |-> e.requests, ops |-> ops,
                  ret |-> Len(ops)]

\* The (page, chunk) pairs ingest_pdf collects from pages i.. onward, or
\* hangs = TRUE when chunk_text does not return on one of them.
RECURSIVE all_chunks_from(_, _, _, _)
all_chunks_from(pages, cs, ov, i) ==
    IF i > Len(pages) THEN [hangs |-> FALSE, chunks |-> <<>>]
    ELSE IF pages[i].text = <<>> THEN all_chunks_from(pages, cs, ov, i + 1)
    ELSE LET c == chunk_text(pages[i].text, cs, ov)
             rest == all_chunks_from(pages, cs, ov, i + 1)
         IN IF c.hangs THEN [hangs |-> TRUE, chunks |-> <<>>]
            ELSE [hangs |-> rest.hangs,
                  chunks |-> [j \in 1..Len(c.chunks) |->
                                 <<pages[i].page, c.chunks[j]>>]
                             \o rest.chunks]

\* ingest_pdf on collection col; outcome is "returned", "raised" or "hangs".
ingest_pdf(col, pdf, doc_id, doc_name, cs, ov, key, fail_at, w) ==
    LET pages == extract_pdf_text(pdf)
        ac == all_chunks_from(pages, cs, ov, 1)
        u == upsert_chunks(col, doc_id, doc_name, ac.chunks, key, fail_at, w)
        run == [doc_name |-> doc_name, doc_id |-> doc_id, pdf |-> pdf,
                pages |-> pages, before |-> col]
    IN IF ac.hangs
       THEN [col |-> col,
             run |-> run @@ [outcome |-> "hangs", all_chunks |-> <<>>,
                             requests |-> 0, ops |-> <<>>, ret |-> -1]]
       ELSE [col |-> u.col,
             run |-> run @@ [outcome |-> IF u.raised THEN "raised"
                                         ELSE "returned",
                             all_chunks |-> ac.chunks,
                             requests |-> u.requests, ops |-> u.ops,
                             ret |-> u.ret]]

\* ------------------------------------------------------------------ query

\* Python's None where a name, a page or an error is expected.
None == <<"None">>
NoPage == -1
NoError == "None"
\* The value of a call that raised.
NoResult == [answer |-> <<>>, sources |-> <<>>]

\* d.get(key, default)
Get(d, key, default) == IF key \in DOMAIN d THEN d[key] ELSE default

\* "\n\n".join(parts)
RECURSIVE join(_)
join(parts) ==
    IF parts = <<>> THEN <<>>
    ELSE IF Len(parts) = 1 THEN parts[1]
    ELSE parts[1] \o <<"\n", "\n">> \o join(Tail(parts))

\* The page of a header: str(page), or the placeholder "?".
page_str(page) == IF page = NoPage THEN <<"?">> ELSE str(page)

build_context(results) ==
    join([i \in 1..Len(results) |->
            LET meta == Get(results[i], "metadata", <<>>)
                name == Get(meta, "doc_name", <<"Doc">>)
                page == Get(meta, "page", NoPage)
            IN <<"[Source: ">> \o name \o <<", Page ">> \o page_str(page)
               \o <<"]", "\n">> \o Get(results[i], "text", <<>>)])

\* The prompt of synthesize_answer (lines 147-151).
prompt_of(question, context) ==
    <<"SYSTEM_RAG_INSTRUCTIONS",
      "\n\nUsing ONLY the context below, answer succinctly.\n\n",
      "# Question\n">> \o question \o <<"\n\n# Context\n">> \o context

\* A slip: a page cited by several hits is listed once.
RECURSIVE sources_deduplicated(_)
sources_deduplicated(results) ==
    IF results = <<>> THEN <<>>
    ELSE LET init == SubSeq(results, 1, Len(results) - 1)
             r == results[Len(results)]
             src == [doc |-> Get(Get(r, "metadata", <<>>), "doc_name", None),
                     page |-> Get(Get(r, "metadata", <<>>), "page", NoPage),
                     score |-> Get(r, "score", 0)]
             before == sources_deduplicated(init)
         IN IF \E i \in DOMAIN before :
                  before[i].doc = src.doc /\ before[i].page = src.page
            THEN before ELSE Append(before, src)

\* The "sources" list of synthesize_answer (lines 160-167).
sources_of(results) ==
    [i \in 1..Len(results) |->
        [doc |-> Get(Get(results[i], "metadata", <<>>), "doc_name", None),
         page |-> Get(Get(results[i], "metadata", <<>>), "page", NoPage),
         score |-> Get(results[i], "score", 0)]]

\* synthesize_answer: gen is what generate_content does: it fails, or gives a
\* response with or without a text attribute.
synthesize_answer(question, results, key, gen) ==
    IF key = <<>>
    THEN [outcome |-> "raised", error |-> "RuntimeError", gen_requests |-> <<>>,
          result |-> NoResult]
    ELSE LET prompt == prompt_of(question, build_context(results)) IN
         IF gen.kind = "fails"
         THEN [outcome |-> "raised", error |-> "GenerationError",
               gen_requests |-> <<prompt>>, result |-> NoResult]
         ELSE [outcome |-> "returned", error |-> NoError,
               gen_requests |-> <<prompt>>,
               result |-> [answer |-> Get(gen, "text", <<>>),
                           sources |-> sources_of(results)]]

\* vector_search: search is what col.aggregate does: it fails, or gives hits.
vector_search(query, k, key, fail_at, search) ==
    LET e == embed_texts(<<clean_text(query)>>, key, fail_at)
        sent == IF e.requests = 0 THEN <<>> ELSE <<clean_text(query)>>
    IN IF e.raised
       THEN [outcome |-> "raised",
             error |-> IF key = <<>> THEN "RuntimeError" ELSE "EmbeddingError",
             embed_requests |-> sent, store_queries |-> 0, hits |-> <<>>]
       ELSE IF search.kind = "fails"
       THEN [outcome |-> "raised", error |-> "StoreError",
             embed_requests |-> sent, store_queries |-> 1, hits |-> <<>>]
       ELSE [outcome |-> "returned", error |-> NoError,
             embed_requests |-> sent, store_queries |-> 1,
             hits |-> search.hits]

rag_query(question, k, key, fail_at, search, gen) ==
    LET v == vector_search(question, k, key, fail_at, search)
        a == synthesize_answer(question, v.hits, key, gen)
        call == [fn |-> "rag_query", question |-> question, k |-> k,
                 embed_requests |-> v.embed_requests,
                 store_queries |-> v.store_queries]
    IN IF v.outcome = "raised"
       THEN call @@ [hits |-> <<>>, gen_requests |-> <<>>,
                     outcome |-> "raised", error |-> v.error,
                     result |-> NoResult]
       ELSE call @@ [hits |-> v.hits, gen_requests |-> a.gen_requests,
                     outcome |-> a.outcome, error |-> a.error,
                     result |-> a.result]

VARIABLES
    arg_text,    \* chunk_text's argument `text`
    chunk_size,  \* its argument chunk_size
    overlap,     \* its argument overlap
    text,        \* the local `text` (the argument stripped)
    start,       \* the loop's window start
    chunks,      \* the list built so far; the return value once pc = "done"
    starts,      \* history: the start offset of every chunk emitted
    visited,     \* history: the start offsets seen at the loop head so far
    pc,          \* "call" | "loop" | "done"
    store,           \* the MongoDB collection: a bag of chunk documents
    GEMINI_API_KEY,  \* rag.py's GEMINI_API_KEY; <<>> when the key is missing
    ui_chunk_size,   \* the front end's chunk-size slider
    ui_overlap,      \* the front end's overlap slider
    runs,            \* history: the ingest_pdf calls made, in order
    last_call,       \* history: the last rag_query / synthesize_answer call
    db_client,       \* db.py's _client: 0 for None, else the thread that made it
    th_pc,           \* per ingesting thread: its position in ingest_pdf
    th_in,           \* per thread: the pdf, chunk_size and overlap it ingests
    th_saw_none,     \* per thread: what `_client is None` evaluated to
    th_ops,          \* per thread: the ops list of its upsert_chunks
    th_todo,         \* per thread: the ops of its bulk write not yet executed
    th_pending       \* per thread: the op whose match found nothing, or 0

chunkVars == <<arg_text, chunk_size, overlap, text, start, chunks, starts,
               visited, pc>>

ingestVars == <<store, GEMINI_API_KEY, ui_chunk_size, ui_overlap, runs>>

queryVars == <<last_call>>

threadVars == <<db_client, th_pc, th_in, th_saw_none, th_ops, th_todo,
                th_pending>>

vars == <<chunkVars, ingestVars, queryVars, threadVars>>

\* The two threads (or processes) that ingest at the same time.
Threads == {1, 2}

\* No concurrent ingestion (specifications with one thread of control).
ThreadsIdle ==
    /\ db_client = 0
    /\ th_pc = [t \in Threads |-> "idle"]
    /\ th_in = [t \in Threads |-> <<>>]
    /\ th_saw_none = [t \in Threads |-> FALSE]
    /\ th_ops = [t \in Threads |-> <<>>]
    /\ th_todo = [t \in Threads |-> {}]
    /\ th_pending = [t \in Threads |-> 0]

\* No query made (specifications that do not query).
QueryIdle == last_call = [fn |-> "none"]

\* The chunker at rest (specifications that do not step it).
ChunkIdle ==
    /\ arg_text = <<>> /\ chunk_size = 1 /\ overlap = 0 /\ text = <<>>
    /\ start = 0 /\ chunks = <<>> /\ starts = <<>> /\ visited = {}
    /\ pc = "done"

\* No ingestion session (specifications that do not ingest).
IngestIdle ==
    /\ store = EmptyBag /\ GEMINI_API_KEY = <<"k">> /\ ui_chunk_size = 1
    /\ ui_overlap = 0 /\ runs = <<>>

\* The loop may run forever; the model stops following it after this many
\* chunks (more than any terminating run of the bounded inputs emits).
MaxChunks == MaxLen + 2

ChunkInit ==
    /\ IngestIdle
    /\ QueryIdle
    /\ ThreadsIdle
    /\ arg_text \in TextsUpTo(MaxLen)
    /\ chunk_size \in 1..MaxChunkSize
    /\ overlap \in 0..MaxOverlap
    /\ text = <<>>
    /\ start = 0
    /\ chunks = <<>>
    /\ starts = <<>>
    /\ visited = {}
    /\ pc = "call"

\* Lines 24-29: strip, the empty-text return, the loop's initial state.
ChunkEnter ==
    /\ pc = "call"
    /\ text' = strip(arg_text)
    /\ pc' = IF text' = <<>> THEN "done" ELSE "loop"
    /\ start' = 0
    /\ chunks' = <<>>
    /\ UNCHANGED <<arg_text, chunk_size, overlap, starts, visited>>
    /\ UNCHANGED <<ingestVars, queryVars, threadVars>>

\* One iteration of `while start < n` (lines 30-35).
ChunkIter ==
    /\ pc = "loop"
    /\ Len(chunks) < MaxChunks
    /\ IF start < Len(text)
       THEN LET end == chunk_end(start, chunk_size, Len(text)) IN
            /\ chunks' = Append(chunks, Slice(text, start, end))
            /\ starts' = Append(starts, start)
            /\ visited' = visited \cup {start}
            /\ IF end = Len(text)
               THEN pc' = "done" /\ start' = start
               ELSE pc' = "loop" /\ start' = chunk_next_start(end, overlap)
       ELSE /\ pc' = "done"
            /\ UNCHANGED <<start, chunks, starts, visited>>
    /\ UNCHANGED <<arg_text, chunk_size, overlap, text>>
    /\ UNCHANGED <<ingestVars, queryVars, threadVars>>

ChunkNext == ChunkEnter \/ ChunkIter

SpecChunk == ChunkInit /\ [][ChunkNext]_vars

\* The function form of chunk_text agrees with the stepped loop.
ChunkTextAgrees ==
    pc = "done" =>
        LET r == chunk_text(arg_text, chunk_size, overlap) IN
        ~r.hangs /\ r.chunks = chunks

\* ------------------------------------------------------ ingestion sessions

\* What page.extract_text() yields for the pages of the model's PDFs: a blank
\* page, and two texts one character apart, one of them padded.
RawPages == {<<"\n">>, <<"a", "a", "b">>, <<" ", "a", "b", "b", "\n">>}

Pdfs == UNION {[1..k -> RawPages] : k \in 0..MaxPages}

\* The uploaded files' names: the session's first file, and another one.
FirstName == <<"p">>
DocNames == {FirstName, <<"q">>}

IngestInit ==
    /\ ChunkIdle
    /\ QueryIdle
    /\ ThreadsIdle
    /\ store = EmptyBag
    /\ GEMINI_API_KEY \in {<<>>, <<"k">>}
    /\ ui_chunk_size \in 1..MaxSliderSize
    /\ ui_overlap \in 0..MaxSliderOverlap
    /\ runs = <<>>

\* The front end's "Build / Update Index" for one uploaded file (lines 53-70):
\* doc_id = deterministic_id(f.name), then ingest_pdf with the sliders' values.
\* The session ingests its first file and, after that returned, the same file
\* name again or the other one.
Ingest ==
    /\ Len(runs) < 2
    /\ runs # <<>> => runs[Len(runs)].outcome = "returned"
    /\ \E doc_name \in IF runs = <<>> THEN {FirstName} ELSE DocNames,
          pdf \in Pdfs :
          LET doc_id == deterministic_id(<<doc_name>>)
              ac == all_chunks_from(extract_pdf_text(pdf), ui_chunk_size,
                                    ui_overlap, 1)
              texts == [i \in 1..Len(ac.chunks) |-> ac.chunks[i][2]]
              ops == build_ops(doc_id, doc_name, ac.chunks,
                               embed_texts(texts, <<"k">>, 0).vecs)
          IN \E fail_at \in 0..Len(ac.chunks), w \in LastWriters(ops) :
                LET r == ingest_pdf(store, pdf, doc_id, doc_name,
                                    ui_chunk_size, ui_overlap,
                                    GEMINI_API_KEY, fail_at, w)
                IN /\ store' = r.col
                   /\ runs' = Append(runs, r.run)
    /\ UNCHANGED <<GEMINI_API_KEY, ui_chunk_size, ui_overlap>>
    /\ UNCHANGED <<chunkVars, queryVars, threadVars>>

Spec == IngestInit /\ [][Ingest]_vars

\* ----------------------------------------------------------------- queries

\* The knowledge base the queries run against: one two-page file, ingested.
KbPdf == <<<<"a", "a", "b">>, <<" ", "a", "b", "b", "\n">>>>
KbStore ==
    LET ac == all_chunks_from(extract_pdf_text(KbPdf), 2, 0, 1)
        ops == build_ops(FirstName, FirstName, ac.chunks,
                         [i \in 1..Len(ac.chunks) |->
                             embed_content(ac.chunks[i][2])])
    IN ingest_pdf(EmptyBag, KbPdf, deterministic_id(<<FirstName>>), FirstName,
                  2, 0, <<"k">>, 0,
                  CHOOSE w \in LastWriters(ops) : TRUE).col

\* The vectorSearchScore values of the model.
Scores == {1, 2}

\* $project {text, metadata, score} of a stored document.
projected(d, score) == [text |-> d.text, metadata |-> d.metadata,
                        score |-> score]

SeqsUpTo(S, n) == UNION {[1..m -> S] : m \in 0..n}

\* What $vectorSearch with limit k can return: at most k distinct documents
\* of the collection, by descending score.
SearchResults(col, k) ==
    {h \in SeqsUpTo({projected(d, sc) : d \in BagToSet(col), sc \in Scores}, k) :
        \A i, j \in DOMAIN h :
            i < j => /\ h[i].score >= h[j].score
                     /\ [h[i] EXCEPT !.score = 0] # [h[j] EXCEPT !.score = 0]}

\* The hits a caller can hand to synthesize_answer: any dicts, with or without
\* metadata, doc_name, page and score.
AnyHits ==
    {[text |-> <<"a">>, metadata |-> [doc_name |-> <<"p">>, page |-> 1],
      score |-> 2],
     [text |-> <<"b">>, metadata |-> [doc_name |-> <<"p">>, page |-> 1],
      score |-> 1],
     [text |-> <<"b">>, metadata |-> [page |-> 2], score |-> 1],
     [text |-> <<"a">>]}

Questions == {<<>>, <<" ">>, <<"a">>, <<"a", "\n", " ", "b">>}

\* generate_content: fails, or a response with or without text.
GenOutcomes == {[kind |-> "fails"], [kind |-> "response"],
                [kind |-> "response", text |-> <<>>],
                [kind |-> "response", text |-> <<"a">>]}

QueryInit ==
    /\ ChunkIdle
    /\ ThreadsIdle
    /\ store = KbStore
    /\ GEMINI_API_KEY \in {<<>>, <<"k">>}
    /\ ui_chunk_size = 2 /\ ui_overlap = 0 /\ runs = <<>>
    /\ QueryIdle

\* rag_query(question, k), as /query and the front end call it. Queries keep
\* no state of their own, so a behaviour makes one call.
RagQuery ==
    /\ last_call.fn = "none"
    /\ \E question \in Questions, k \in 1..MaxK, fail_at \in 0..1,
          gen \in GenOutcomes :
          \E search \in {[kind |-> "fails"]}
                 \cup {[kind |-> "hits", hits |-> h] :
                          h \in SearchResults(store, k)} :
             last_call' = rag_query(question, k, GEMINI_API_KEY, fail_at,
                                    search, gen)
    /\ UNCHANGED <<chunkVars, ingestVars, threadVars>>

\* synthesize_answer(question, results) called with any hits.
SynthesizeAnswer ==
    /\ last_call.fn = "none"
    /\ \E question \in Questions, results \in SeqsUpTo(AnyHits, MaxK),
          gen \in GenOutcomes :
          LET a == synthesize_answer(question, results, GEMINI_API_KEY, gen) IN
          last_call' = [fn |-> "synthesize_answer", question |-> question,
                        k |-> 0, embed_requests |-> <<>>, store_queries |-> 0,
                        hits |-> results, gen_requests |-> a.gen_requests,
                        outcome |-> a.outcome, error |-> a.error,
                        result |-> a.result]
    /\ UNCHANGED <<chunkVars, ingestVars, threadVars>>

QueryNext == RagQuery \/ SynthesizeAnswer

SpecQuery == QueryInit /\ [][QueryNext]_vars

\* ---------------------------------------------------- concurrent ingestion

\* The one-page files the two threads upload under the same name.
OnePagePdfs == {<<t>> : t \in RawPages \ {<<"\n">>}}

\* The sliders' positions at which chunk_text returns on these files.
ThreadParams ==
    {p \in (1..MaxSliderSize) \X (0..MaxSliderOverlap) : p[2] < p[1]}

\* The collection one ingestion of pdf alone leaves in col.
IngestedAlone(col, pdf, cs, ov) ==
    LET doc_id == deterministic_id(<<FirstName>>)
        ac == all_chunks_from(extract_pdf_text(pdf), cs, ov, 1)
        ops == build_ops(doc_id, FirstName, ac.chunks,
                         [i \in 1..Len(ac.chunks) |->
                             embed_content(ac.chunks[i][2])])
    IN {ingest_pdf(col, pdf, doc_id, FirstName, cs, ov, <<"k">>, 0, w).col :
          w \in LastWriters(ops)}

\* The file name was never ingested, or one of the files was, earlier.
ConcInit ==
    /\ ChunkIdle
    /\ QueryIdle
    /\ store \in {EmptyBag}
                 \cup UNION {IngestedAlone(EmptyBag, pdf, 2, 0) :
                                pdf \in OnePagePdfs}
    /\ GEMINI_API_KEY = <<"k">>
    /\ ui_chunk_size = 1 /\ ui_overlap = 0 /\ runs = <<>>
    /\ db_client = 0
    /\ th_pc = [t \in Threads |-> "start"]
    /\ th_in = [t \in Threads |-> <<>>]
    /\ th_saw_none = [t \in Threads |-> FALSE]
    /\ th_ops = [t \in Threads |-> <<>>]
    /\ th_todo = [t \in Threads |-> {}]
    /\ th_pending = [t \in Threads |-> 0]

\* What no step of an ingesting thread changes.
ThFrame ==
    /\ UNCHANGED <<GEMINI_API_KEY, ui_chunk_size, ui_overlap, runs>>
    /\ UNCHANGED <<chunkVars, queryVars>>

\* ingest_pdf lines 97-104: extract and chunk the uploaded file.
ThExtract(t) ==
    /\ th_pc[t] = "start"
    /\ \E pdf \in OnePagePdfs, p \in ThreadParams :
          th_in' = [th_in EXCEPT ![t] = <<pdf, p[1], p[2]>>]
    /\ th_pc' = [th_pc EXCEPT ![t] = "get_client"]
    /\ UNCHANGED <<store, db_client, th_saw_none, th_ops, th_todo, th_pending>>
    /\ ThFrame

\* get_client line 15: `if _client is None`.
ThClientCheck(t) ==
    /\ th_pc[t] = "get_client"
    /\ th_saw_none' = [th_saw_none EXCEPT ![t] = (db_client = 0)]
    /\ th_pc' = [th_pc EXCEPT ![t] = IF db_client = 0 THEN "new_client"
                                      ELSE "embed"]
    /\ UNCHANGED <<store, db_client, th_in, th_ops, th_todo, th_pending>>
    /\ ThFrame

\* get_client line 16: `_client = MongoClient(MONGODB_URI)`.
ThClientCreate(t) ==
    /\ th_pc[t] = "new_client"
    /\ db_client' = t
    /\ th_pc' = [th_pc EXCEPT ![t] = "embed"]
    /\ UNCHANGED <<store, th_in, th_saw_none, th_ops, th_todo, th_pending>>
    /\ ThFrame

\* upsert_chunks lines 64-80: embed every chunk, build the ops.
ThEmbed(t) ==
    /\ th_pc[t] = "embed"
    /\ LET doc_id == deterministic_id(<<FirstName>>)
           ac == all_chunks_from(extract_pdf_text(th_in[t][1]), th_in[t][2],
                                 th_in[t][3], 1)
           texts == [i \in 1..Len(ac.chunks) |-> ac.chunks[i][2]]
           ops == build_ops(doc_id, FirstName, ac.chunks,
                            embed_texts(texts, GEMINI_API_KEY, 0).vecs)
       IN /\ th_ops' = [th_ops EXCEPT ![t] = ops]
          /\ th_todo' = [th_todo EXCEPT ![t] = DOMAIN ops]
    /\ th_pc' = [th_pc EXCEPT ![t] = "bulk_write"]
    /\ UNCHANGED <<store, db_client, th_in, th_saw_none, th_pending>>
    /\ ThFrame

\* One op of the unordered bulk write whose filter matches a document: the
\* server updates the matched document in one step.
ThUpdateMatched(t) ==
    /\ th_pc[t] = "bulk_write" /\ th_pending[t] = 0
    /\ \E i \in th_todo[t] :
          /\ Matching(store, th_ops[t][i].filt) # {}
          /\ \E hit \in Matching(store, th_ops[t][i].filt) :
                store' = update_one(store, th_ops[t][i], hit)
          /\ th_todo' = [th_todo EXCEPT ![t] = @ \ {i}]
    /\ UNCHANGED <<db_client, th_pc, th_in, th_saw_none, th_ops, th_pending>>
    /\ ThFrame

\* One op whose filter matches nothing: the upsert will insert. No unique
\* index on (doc_id, chunk_id) makes the server look again before it does.
ThMatchNothing(t) ==
    /\ th_pc[t] = "bulk_write" /\ th_pending[t] = 0
    /\ \E i \in th_todo[t] :
          /\ Matching(store, th_ops[t][i].filt) = {}
          /\ th_pending' = [th_pending EXCEPT ![t] = i]
    /\ UNCHANGED <<store, db_client, th_pc, th_in, th_saw_none, th_ops,
                   th_todo>>
    /\ ThFrame

\* The insert of an upsert that matched nothing.
ThInsert(t) ==
    /\ th_pc[t] = "bulk_write" /\ th_pending[t] # 0
    /\ store' = update_one(store, th_ops[t][th_pending[t]], <<>>)
    /\ th_todo' = [th_todo EXCEPT ![t] = @ \ {th_pending[t]}]
    /\ th_pending' = [th_pending EXCEPT ![t] = 0]
    /\ UNCHANGED <<db_client, th_pc, th_in, th_saw_none, th_ops>>
    /\ ThFrame

\* bulk_write is through: return len(ops).
ThReturn(t) ==
    /\ th_pc[t] = "bulk_write" /\ th_todo[t] = {} /\ th_pending[t] = 0
    /\ th_pc' = [th_pc EXCEPT ![t] = "returned"]
    /\ UNCHANGED <<store, db_client, th_in, th_saw_none, th_ops, th_todo,
                   th_pending>>
    /\ ThFrame

ThStep(t) ==
    \/ ThExtract(t)
    \/ ThClientCheck(t)
    \/ ThClientCreate(t)
    \/ ThEmbed(t)
    \/ ThUpdateMatched(t)
    \/ ThMatchNothing(t)
    \/ ThInsert(t)
    \/ ThReturn(t)

ConcNext == \E t \in Threads : ThStep(t)

SpecConc == ConcInit /\ [][ConcNext]_vars

\* --------------------------------------------- claims: concurrent ingestion

Keys(col) == {[doc_id |-> d.doc_id, chunk_id |-> d.chunk_id] : d \in BagToSet(col)}

\* The number of documents col holds under key.
CountOn(col, key) ==
    LET ds == Matching(col, key) IN
    BagCardinality([d \in ds |-> CopiesIn(d, col)])

\* Every stored document is, field for field, what one upsert of one of the
\* ingestions (the two running, or the earlier one) wrote.
WrittenWhole ==
    \A d \in BagToSet(store) :
        \/ \E t \in Threads : \E i \in DOMAIN th_ops[t] :
              d = th_ops[t][i].set
        \/ \E pdf \in OnePagePdfs :
              \E col \in IngestedAlone(EmptyBag, pdf, 2, 0) : BagIn(d, col)

BothReturned == \A t \in Threads : th_pc[t] = "returned"

\* C6: while two ingestions of the same file name interleave their upserts,
\* the collection holds at most one document per (doc_id, chunk_id), each
\* stored document is what one single upsert wrote, and when both carried the
\* same content and parameters the collection ends as one ingestion alone
\* leaves it.
C6_LastWriteWins ==
    /\ \A key \in Keys(store) : CountOn(store, key) <= 1
    /\ WrittenWhole
    /\ (BothReturned /\ th_in[1] = th_in[2]) =>
          \E before \in {EmptyBag}
                          \cup UNION {IngestedAlone(EmptyBag, pdf, 2, 0) :
                                         pdf \in OnePagePdfs} :
              store \in IngestedAlone(before, th_in[1][1], th_in[1][2],
                                       th_in[1][3])

\* ------------------------------------------------------- claims: queries

\* C8: rag_query on an empty or whitespace-only question fails with a
\* validation error and has issued no embedding request, no store query and
\* no generation request.
C8_EmptyQuestionRejected ==
    (last_call.fn = "rag_query" /\ strip(last_call.question) = <<>>) =>
        /\ last_call.outcome = "raised"
        /\ last_call.error = "ValidationError"
        /\ last_call.embed_requests = <<>>
        /\ last_call.store_queries = 0
        /\ last_call.gen_requests = <<>>

\* C9: synthesize_answer returns one source per hit, in the hits' order, entry
\* i carrying the doc_name, page and score of hit i (None, None and 0.0 for
\* what a hit lacks), whatever text the generative collaborator returned.
C9_SourcesAreTheHits ==
    (last_call.fn # "none" /\ last_call.outcome = "returned") =>
        LET hits == last_call.hits
            sources == last_call.result.sources
        IN /\ Len(sources) = Len(hits)
           /\ \A i \in DOMAIN hits :
                 /\ sources[i].doc =
                       IF "metadata" \in DOMAIN hits[i]
                          /\ "doc_name" \in DOMAIN hits[i].metadata
                       THEN hits[i].metadata.doc_name ELSE None
                 /\ sources[i].page =
                       IF "metadata" \in DOMAIN hits[i]
                          /\ "page" \in DOMAIN hits[i].metadata
                       THEN hits[i].metadata.page ELSE NoPage
                 /\ sources[i].score =
                       IF "score" \in DOMAIN hits[i] THEN hits[i].score ELSE 0

\* C9 witness: an answer over two hits from the same page of the same file.
C9_Witness ==
    /\ last_call.fn = "synthesize_answer" /\ last_call.outcome = "returned"
    /\ Len(last_call.hits) = 2
    /\ last_call.hits[1] # last_call.hits[2]
    /\ \A i \in 1..2 : "metadata" \in DOMAIN last_call.hits[i]
                         /\ "doc_name" \in DOMAIN last_call.hits[i].metadata
    /\ last_call.hits[1].metadata = last_call.hits[2].metadata
    /\ last_call.result.answer # <<>>

\* ----------------------------------------------------- claims: ingestion

\* The collection as run i left it.
StoreAfter(i) == IF i < Len(runs) THEN runs[i + 1].before ELSE store

Returned(i) == runs[i].outcome = "returned"

ChunkIds(run) == {run.ops[i].filt.chunk_id : i \in DOMAIN run.ops}

\* The number of documents col holds for doc_id.
CountFor(col, doc_id) ==
    LET ds == {d \in BagToSet(col) : d.doc_id = doc_id} IN
    BagCardinality([d \in ds |-> CopiesIn(d, col)])

SameDocument(i, j) ==
    runs[i].doc_name = runs[j].doc_name /\ runs[i].pdf = runs[j].pdf

\* C1: ingesting the same document twice under the same name and parameters
\* yields the same set of chunk ids both times, and the collection holds as
\* many documents for that doc_id after the second run as after the first.
C1_IdempotentReingestion ==
    \A i \in 1..Len(runs), j \in 1..Len(runs) :
        (i < j /\ Returned(i) /\ Returned(j) /\ SameDocument(i, j)) =>
            /\ ChunkIds(runs[i]) = ChunkIds(runs[j])
            /\ CountFor(StoreAfter(j), runs[j].doc_id)
                   = CountFor(StoreAfter(i), runs[i].doc_id)

\* C1 witness: a two-page document of several chunks ingested twice.
C1_Witness ==
    /\ Len(runs) = 2 /\ Returned(1) /\ Returned(2) /\ SameDocument(1, 2)
    /\ Len(runs[2].ops) >= 3
    /\ \E a, b \in DOMAIN runs[2].ops :
          runs[2].ops[a].set.metadata.page # runs[2].ops[b].set.metadata.page

\* C4: when the embedding fails (missing key, or a failed request for the
\* first or a later chunk) no upsert is issued and the collection is as it was
\* before the ingestion; writes are issued only once every chunk of the
\* document has its embedding.
C4_EmbeddingFailureIsAtomic ==
    \A i \in 1..Len(runs) :
        /\ runs[i].outcome = "raised" =>
              runs[i].ops = <<>> /\ StoreAfter(i) = runs[i].before
        /\ runs[i].ops # <<>> =>
              runs[i].requests = Len(runs[i].all_chunks)

\* C4 witness: an ingestion into a non-empty collection whose embedding
\* failed at a request after the first.
C4_Witness ==
    \E i \in 1..Len(runs) :
        /\ runs[i].outcome = "raised"
        /\ runs[i].requests >= 2
        /\ runs[i].before # EmptyBag

\* C5: the ops of one bulk write have pairwise distinct (doc_id, chunk_id)
\* filters, so the collection they leave does not depend on the order they
\* are applied in, and the count returned when ingesting into an empty
\* collection is the number of documents held for the doc_id.
C5_DisjointKeys ==
    \A i \in 1..Len(runs) :
        Returned(i) =>
            LET ops == runs[i].ops IN
            /\ \A a, b \in DOMAIN ops : a # b => ops[a].filt # ops[b].filt
            /\ \A w1, w2 \in LastWriters(ops) :
                  bulk_write(runs[i].before, ops, w1)
                     = bulk_write(runs[i].before, ops, w2)
            /\ runs[i].before = EmptyBag =>
                  runs[i].ret = CountFor(StoreAfter(i), runs[i].doc_id)

\* Run j re-ingests run i's file name and exactly the chunk at index k has
\* another text (same pages, same number of chunks on each).
OneChunkChanged(i, j, k) ==
    /\ i < j /\ Returned(i) /\ Returned(j)
    /\ runs[i].doc_name = runs[j].doc_name
    /\ Len(runs[i].all_chunks) = Len(runs[j].all_chunks)
    /\ k \in DOMAIN runs[i].all_chunks
    /\ \A m \in DOMAIN runs[i].all_chunks :
          /\ runs[i].all_chunks[m][1] = runs[j].all_chunks[m][1]
          /\ (runs[i].all_chunks[m][2] # runs[j].all_chunks[m][2]) <=> (m = k)

IdsAfterChange(i, j, k) ==
    \A m \in DOMAIN runs[i].ops :
        (runs[i].ops[m].set.chunk_id = runs[j].ops[m].set.chunk_id) <=> (m # k)

RunPairs == (1..Len(runs)) \X (1..Len(runs))

\* C7 (as claimed): a chunk whose text changed, wherever in the chunk, gets a
\* new chunk_id, and every unchanged chunk keeps its chunk_id.
C7_ChangedChunkGetsNewId ==
    \A ij \in RunPairs : \A k \in 1..Len(runs[ij[1]].all_chunks) :
        OneChunkChanged(ij[1], ij[2], k) => IdsAfterChange(ij[1], ij[2], k)

ChangedInPrefix(i, j, k) ==
    Slice(runs[i].all_chunks[k][2], 0, IdPrefixLen)
        # Slice(runs[j].all_chunks[k][2], 0, IdPrefixLen)

\* C7 (as amended): a chunk whose text changed within its first 64
\* characters (IdPrefixLen in the model) gets a new chunk_id, and every
\* unchanged chunk keeps its chunk_id.
C7_ChangedPrefixGetsNewId ==
    \A ij \in RunPairs : \A k \in 1..Len(runs[ij[1]].all_chunks) :
        (OneChunkChanged(ij[1], ij[2], k) /\ ChangedInPrefix(ij[1], ij[2], k))
            => IdsAfterChange(ij[1], ij[2], k)

\* C7 witness: a re-ingestion that changed one chunk of several within its
\* id prefix.
C7_Witness ==
    \E ij \in RunPairs : \E k \in 1..Len(runs[ij[1]].all_chunks) :
        /\ OneChunkChanged(ij[1], ij[2], k)
        /\ ChangedInPrefix(ij[1], ij[2], k)
        /\ Len(runs[ij[1]].all_chunks) >= 2

\* The ops of run r on page p, in the order submitted.
OpsOnPage(r, p) == SelectSeq(r.ops, LAMBDA op : op.set.metadata.page = p)

\* C10: after any sequence of successful ingestions every stored document has
\* the embedding the collaborator returned for its own text, the page its text
\* was cut from, a non-empty text no longer than chunk_size and the chunk_id
\* of (doc_id, page, first 64 characters of the text); each ingestion submits
\* its chunks in page order and, within a page, in chunk order.
C10_RecordsSelfConsistent ==
    /\ \A d \in BagToSet(store) :
          /\ d.embedding = embed_content(d.text)
          /\ d.text # <<>> /\ Len(d.text) <= ui_chunk_size
          /\ d.chunk_id = deterministic_id(<<d.doc_id, str(d.metadata.page),
                                            Slice(d.text, 0, IdPrefixLen)>>)
          /\ d.doc_id = deterministic_id(<<d.metadata.doc_name>>)
          /\ \E i \in 1..Len(runs) :
                /\ Returned(i) /\ runs[i].doc_name = d.metadata.doc_name
                /\ d.metadata.page \in DOMAIN runs[i].pages
                /\ \E off \in 0..Len(runs[i].pages[d.metadata.page].text) :
                      d.text = Slice(runs[i].pages[d.metadata.page].text, off,
                                     off + Len(d.text))
    /\ \A i \in 1..Len(runs) :
          Returned(i) =>
              /\ \A a, b \in DOMAIN runs[i].ops :
                    a < b => runs[i].ops[a].set.metadata.page
                                <= runs[i].ops[b].set.metadata.page
              /\ \A p \in DOMAIN runs[i].pages :
                    LET on == OpsOnPage(runs[i], p) IN
                    \A m \in DOMAIN on :
                        on[m].set.text =
                            Slice(runs[i].pages[p].text,
                                  (m - 1) * (ui_chunk_size - ui_overlap),
                                  (m - 1) * (ui_chunk_size - ui_overlap)
                                     + ui_chunk_size)

\* C10 witness: two successful ingestions left documents cut from different
\* pages, one of them a page's second chunk.
C10_Witness ==
    /\ Len(runs) = 2 /\ Returned(1) /\ Returned(2)
    /\ \E d, e \in BagToSet(store) : d.metadata.page # e.metadata.page
    /\ \E p \in DOMAIN runs[2].pages : Len(OpsOnPage(runs[2], p)) >= 2

\* ------------------------------------------------------- claims: chunker

ValidParams == chunk_size > 0 /\ 0 <= overlap /\ overlap < chunk_size

\* The chunks with the first `overlap` characters of all but the first dropped,
\* concatenated.
RECURSIVE DeOverlapped(_, _, _)
DeOverlapped(cs, ov, i) ==
    IF i > Len(cs) THEN <<>>
    ELSE (IF i = 1 THEN cs[i] ELSE Slice(cs[i], ov, Len(cs[i])))
         \o DeOverlapped(cs, ov, i + 1)

\* What the coverage claim says of the returned chunks, read against text t.
Coverage(t) ==
    /\ (chunks # <<>> => starts[1] = 0)
    /\ \A i \in 1..Len(chunks) - 1 :
          starts[i + 1] = starts[i] + chunk_size - overlap
    /\ \A i \in 1..Len(chunks) :
          /\ Len(chunks[i]) <= chunk_size
          /\ chunks[i] = Slice(t, starts[i], starts[i] + Len(chunks[i]))
    /\ (chunks # <<>> => starts[Len(chunks)] + Len(chunks[Len(chunks)]) = Len(t))
    /\ DeOverlapped(chunks, overlap, 1) = t

\* C2 (as amended): for every text and every chunk_size > 0, 0 <= overlap <
\* chunk_size, the chunks chunk_text returns cover the text stripped of its
\* leading and trailing whitespace: the first starts at 0, each next one
\* starts chunk_size - overlap later, none is longer than chunk_size, the last
\* ends at the stripped text's length, and the de-overlapped concatenation is
\* the stripped text.
C2_CoverageOfStrippedText ==
    (pc = "done" /\ ValidParams) => Coverage(strip(arg_text))

\* C2 witness: a finished call that emitted at least three chunks with a
\* non-zero overlap.
C2_Witness ==
    pc = "done" /\ ValidParams /\ overlap > 0 /\ Len(chunks) >= 3

\* C2 (as claimed): the same, read against the text as passed.
C2_CoverageOfPassedText ==
    (pc = "done" /\ ValidParams) => Coverage(arg_text)

\* C3: chunk_text terminates for every chunk_size > 0 and overlap >= 0: the
\* loop never comes back to a start offset it has already been at.
C3_StartNeverRepeats ==
    pc = "loop" => start \notin visited

====
